---- MODULE Spec2Model ----
(***************************************************************************)
(* A model of packages/result: the Result<T, E> class, its two static      *)
(* factories, its combinators, the Panic error and the ControlFlow record. *)
(*                                                                         *)
(* Result instances live in a heap indexed by object identity (1, 2, ...). *)
(* A caller applies one operation at a time to the objects constructed so  *)
(* far and receives a completion: a returned value or a thrown value.      *)
(* Callbacks supplied by the caller are data; every invocation of one is   *)
(* logged with the parameter it was passed as, its arguments and how it    *)
(* completed.                                                              *)
(***************************************************************************)
EXTENDS Integers, Sequences, FiniteSets, TLC

\* The number of Result objects a behaviour may construct.
MaxObjs == 2

\* The number of fallible steps of a routine.
MaxSteps == 3

\* The number of calls of awaited() in a behaviour.
MaxTasks == 2

\* The number of andThen calls of a pipeline.
MaxPipe == 3

(***************************************************************************)
(* JavaScript values.  A value is a tag and a number: the number of a      *)
(* number, the truth of a boolean, the identity of an object or symbol.    *)
(***************************************************************************)
Val(tag, v) == [tag |-> tag, v |-> v]

undefined == Val("undefined", 0)

null == Val("null", 0)

true == Val("boolean", 1)

false == Val("boolean", 0)

Bool(b) == IF b THEN true ELSE false

Num(n) == Val("number", n)

\* A reference to the Result object with identity a.
Ref(a) == Val("Result", a)

\* A reference to the Panic object with identity i.
PanicRef(i) == Val("Panic", i)

\* static readonly none: unique symbol = Symbol('none')
none == Val("symbol", 0)

\* if (x): the truthiness of a value.
Truthy(x) ==
  CASE x.tag \in {"undefined", "null"} -> FALSE
    [] x.tag \in {"boolean", "number"} -> x.v # 0
    [] x.tag = "string" -> x.v # ""
    [] OTHER -> TRUE

\* The i-th argument of a call: undefined when the caller omitted it.
Arg(args, i) == IF i <= Len(args) THEN args[i] ELSE undefined

(***************************************************************************)
(* The state.                                                              *)
(*   innerResult[a]  the public field innerResult of Result object a       *)
(*   made[a]         how object a was constructed: the factory called and  *)
(*                   the arguments it was called with                      *)
(*   panics[i]       the Panic object i: its message and its cause         *)
(*   last            the operation the caller applied last and how it      *)
(*                   completed, or Idle when the caller holds none         *)
(*   routine         a Result-returning routine that evaluates fallible    *)
(*                   steps and returns early through branch()              *)
(*   pipe            a pipeline r.andThen(f1).andThen(f2)...andThen(fn)    *)
(*   promises[p]     the pending value p: its state and settled value      *)
(*   tasks[t]        the t-th call of the async method awaited()           *)
(*   turnstile       a call of CfTurnstile.validate and its requests       *)
(***************************************************************************)
VARIABLES innerResult, made, panics, last, routine, pipe, promises, tasks,
          turnstile

vars ==
  <<innerResult, made, panics, last, routine, pipe, promises, tasks, turnstile>>

\* The payloads a caller passes to the factories and as default values.
Payloads == {undefined, null, none, Num(1), Num(2)}

\* The Result objects constructed so far.
Objs == DOMAIN innerResult

(***************************************************************************)
(* Completions.  An evaluation starts in a store (the heap, the Panic      *)
(* objects and the log of callback invocations) and completes by returning *)
(* or by throwing, in a store.                                             *)
(***************************************************************************)
Store ==
  [innerResult |-> innerResult, made |-> made, panics |-> panics, calls |-> <<>>]

Return(s, v) == [kind |-> "return", value |-> v, s |-> s]

Throw(s, v) == [kind |-> "throw", value |-> v, s |-> s]

\* Sequencing: a thrown completion propagates, a returned one continues.
Then(r, k(_, _)) == IF r.kind = "throw" THEN r ELSE k(r.s, r.value)

\* constructor(public innerResult: ResultInner<T, E>)
New(s, inner, how) ==
  Return([s EXCEPT !.innerResult = Append(@, inner), !.made = Append(@, how)],
         Ref(Len(s.innerResult) + 1))

\* static ok(value?)
ResultOk(s, args) ==
  New(s, [success |-> TRUE, value |-> Arg(args, 1)],
      [factory |-> "ok", args |-> args])

\* static err(value)
ResultErr(s, args) ==
  New(s, [success |-> FALSE, value |-> Arg(args, 1)],
      [factory |-> "err", args |-> args])

\* new Panic(message, cause)
NewPanic(s, message, cause) ==
  [s EXCEPT !.panics = Append(@, [message |-> message, cause |-> cause])]

(***************************************************************************)
(* Callbacks.  A caller-supplied function is a kind and a constant c:      *)
(*   id     (x) => x                                                       *)
(*   next   (x) => the other number when x is a number, else x             *)
(*   const  (x) => c                                                       *)
(*   eq     (x) => x === c                                                 *)
(*   throw  (x) => { throw c }                                             *)
(*   ok     (x) => Result.ok(x)                                            *)
(*   err    (x) => Result.err(x)                                           *)
(***************************************************************************)
Fn(kind, c) == [kind |-> kind, c |-> c]

\* Callbacks of type (value) => U, also used as () => T and (value) => void.
ValueCallbacks ==
  {Fn("id", undefined), Fn("next", undefined), Fn("const", null), Fn("throw", Num(2))}

\* Callbacks of type (value) => boolean.
Predicates == {Fn("eq", Num(1)), Fn("const", true), Fn("throw", Num(2))}

\* Callbacks of type (value) => Result<U, F>.
ResultCallbacks ==
  {Fn("ok", undefined), Fn("err", undefined), Fn("throw", Num(2))}
    \cup {Fn("const", Ref(a)) : a \in Objs}

\* The body of callback f evaluated on args in store s.
Apply(s, f, args) ==
  LET x == Arg(args, 1) IN
  CASE f.kind = "id" -> Return(s, x)
    [] f.kind = "next" ->
         Return(s, IF x.tag = "number" THEN Num(3 - x.v) ELSE x)
    [] f.kind = "const" -> Return(s, f.c)
    [] f.kind = "eq" -> Return(s, Bool(x = f.c))
    [] f.kind = "throw" -> Throw(s, f.c)
    [] f.kind = "ok" -> ResultOk(s, <<x>>)
    [] f.kind = "err" -> ResultErr(s, <<x>>)

\* f(...args), where f is the parameter named param of the running operation:
\* the invocation is logged with its arguments and its completion.
Call(s, param, f, args) ==
  LET r == Apply(s, f, args) IN
  [r EXCEPT !.s.calls =
     Append(@, [param |-> param, args |-> args,
                kind |-> r.kind, value |-> r.value])]

(***************************************************************************)
(* The methods of Result.  self is the identity of the receiver.           *)
(***************************************************************************)

\* this.innerResult
This(s, self) == s.innerResult[self]

\* match(ok, err), as the other methods use it: the arms are closures.
Match(s, self, onOk(_, _), onErr(_, _)) ==
  IF This(s, self).success
    THEN onOk(s, This(s, self).value)
    ELSE onErr(s, This(s, self).value)

\* match with the dispatch lost: the ok arm runs whatever the variant is.
matchOkArmOnly(s, self, okFn, errFn) ==
  Call(s, "ok", okFn, <<This(s, self).value>>)

\* match(ok, err) with the caller's two functions.
match(s, self, okFn, errFn) ==
  Match(s, self,
        LAMBDA s1, value : Call(s1, "ok", okFn, <<value>>),
        LAMBDA s1, value : Call(s1, "err", errFn, <<value>>))

isOk(s, self) == Return(s, Bool(This(s, self).success))

\* isErr with the negation lost.
isErrNotNegated(s, self) == Return(s, Bool(This(s, self).success))

isErr(s, self) == Return(s, Bool(~This(s, self).success))

isOkAnd(s, self, f) ==
  Match(s, self,
        LAMBDA s1, value : Call(s1, "f", f, <<value>>),
        LAMBDA s1, e : Return(s1, false))

isErrAnd(s, self, f) ==
  Match(s, self,
        LAMBDA s1, value : Return(s1, false),
        LAMBDA s1, e : Call(s1, "f", f, <<e>>))

\* ok(noneSymbol?) with the flag ignored: null stands for absence in both modes.
okIgnoringFlag(s, self, args) ==
  IF This(s, self).success
    THEN Return(s, This(s, self).value)
    ELSE Return(s, null)

\* ok(noneSymbol?)
ok(s, self, args) ==
  IF This(s, self).success
    THEN Return(s, This(s, self).value)
    ELSE IF Truthy(Arg(args, 1)) THEN Return(s, none) ELSE Return(s, null)

\* err(noneSymbol?)
err(s, self, args) ==
  IF ~This(s, self).success
    THEN Return(s, This(s, self).value)
    ELSE IF Truthy(Arg(args, 1)) THEN Return(s, none) ELSE Return(s, null)

\* map that writes op(value) into the receiver instead of making a new Result.
mapInPlace(s, self, op) ==
  IF This(s, self).success
    THEN Then(Call(s, "op", op, <<This(s, self).value>>),
              LAMBDA s1, u :
                Return([s1 EXCEPT !.innerResult[self].value = u], Ref(self)))
    ELSE Return(s, Ref(self))

map(s, self, op) ==
  Match(s, self,
        LAMBDA s1, value :
          Then(Call(s1, "op", op, <<value>>),
               LAMBDA s2, u : ResultOk(s2, <<u>>)),
        LAMBDA s1, e : Return(s1, Ref(self)))

mapOr(s, self, defaultValue, f) ==
  Match(s, self,
        LAMBDA s1, value : Call(s1, "f", f, <<value>>),
        LAMBDA s1, e : Return(s1, defaultValue))

mapOrElse(s, self, defaultValue, f) ==
  Match(s, self,
        LAMBDA s1, value : Call(s1, "f", f, <<value>>),
        LAMBDA s1, e : Call(s1, "defaultValue", defaultValue, <<e>>))

\* mapErr that wraps op(error) with Result.ok.
mapErrIntoOk(s, self, op) ==
  IF This(s, self).success
    THEN Return(s, Ref(self))
    ELSE Then(Call(s, "op", op, <<This(s, self).value>>),
              LAMBDA s1, u : ResultOk(s1, <<u>>))

mapErr(s, self, op) ==
  Match(s, self,
        LAMBDA s1, value : Return(s1, Ref(self)),
        LAMBDA s1, e :
          Then(Call(s1, "op", op, <<e>>),
               LAMBDA s2, u : ResultErr(s2, <<u>>)))

inspect(s, self, f) ==
  IF This(s, self).success
    THEN Then(Call(s, "f", f, <<This(s, self).value>>),
              LAMBDA s1, u : Return(s1, Ref(self)))
    ELSE Return(s, Ref(self))

\* inspectErr with the test of the variant lost: f runs on a success too.
inspectErrAlways(s, self, f) ==
  Then(Call(s, "f", f, <<This(s, self).value>>),
       LAMBDA s1, u : Return(s1, Ref(self)))

inspectErr(s, self, f) ==
  IF ~This(s, self).success
    THEN Then(Call(s, "f", f, <<This(s, self).value>>),
              LAMBDA s1, u : Return(s1, Ref(self)))
    ELSE Return(s, Ref(self))

and(s, self, res) ==
  Match(s, self,
        LAMBDA s1, value : Return(s1, res),
        LAMBDA s1, e : Return(s1, Ref(self)))

\* andThen that passes a failure on as a new Result carrying the same error.
andThenRewrapping(s, self, op) ==
  IF This(s, self).success
    THEN Call(s, "op", op, <<This(s, self).value>>)
    ELSE ResultErr(s, <<This(s, self).value>>)

andThen(s, self, op) ==
  Match(s, self,
        LAMBDA s1, value : Call(s1, "op", op, <<value>>),
        LAMBDA s1, e : Return(s1, Ref(self)))

\* or with the arms of and.
orLikeAnd(s, self, res) ==
  IF This(s, self).success THEN Return(s, res) ELSE Return(s, Ref(self))

or(s, self, res) ==
  Match(s, self,
        LAMBDA s1, value : Return(s1, Ref(self)),
        LAMBDA s1, e : Return(s1, res))

orElse(s, self, op) ==
  Match(s, self,
        LAMBDA s1, value : Return(s1, Ref(self)),
        LAMBDA s1, e : Call(s1, "op", op, <<e>>))

\* unwrap that throws a Panic without its cause.
unwrapWithoutCause(s, self) ==
  IF This(s, self).success
    THEN Return(s, This(s, self).value)
    ELSE Throw(NewPanic(s, "called Result.unwrap() on an Err", undefined),
               PanicRef(Len(s.panics) + 1))

\* The message of the Panic that unwrap throws (its backquotes left out).
PanicMessage == "called Result.unwrap() on an Err"

unwrap(s, self) ==
  Match(s, self,
        LAMBDA s1, value : Return(s1, value),
        LAMBDA s1, e :
          Throw(NewPanic(s1, PanicMessage, e), PanicRef(Len(s1.panics) + 1)))

\* unwrapOr that panics on failure, as unwrap does.
unwrapOrPanicking(s, self, defaultValue) == unwrap(s, self)

unwrapOr(s, self, defaultValue) ==
  Match(s, self,
        LAMBDA s1, value : Return(s1, value),
        LAMBDA s1, e : Return(s1, defaultValue))

\* unwrapOrElse that hands the error to the default function.
unwrapOrElseWithError(s, self, defaultValue) ==
  IF This(s, self).success
    THEN Return(s, This(s, self).value)
    ELSE Call(s, "defaultValue", defaultValue, <<This(s, self).value>>)

unwrapOrElse(s, self, defaultValue) ==
  Match(s, self,
        LAMBDA s1, value : Return(s1, value),
        LAMBDA s1, e : Call(s1, "defaultValue", defaultValue, <<>>))

\* orThrow that wraps the error in a Panic, as unwrap does.
orThrowWrapping(s, self) == unwrap(s, self)

orThrow(s, self) ==
  Match(s, self,
        LAMBDA s1, value : Return(s1, value),
        LAMBDA s1, e : Throw(s1, e))

\* x instanceof Promise
IsPromise(x) == x.tag = "Promise"

\* The promise an async function returned is fulfilled with v.
Resolve(s, v) == [kind |-> "resolve", value |-> v, s |-> s]

\* An async function is suspended at an await of the pending value x, in
\* the branch k of its code.
Await(s, x, k) == [kind |-> "await", value |-> x, branch |-> k, s |-> s]

\* The promise an async function returned is rejected with reason v.
Reject(s, v) == [kind |-> "reject", value |-> v, s |-> s]

\* awaited() resumed in branch k with the value of the awaited promise, but
\* always wrapping it with Result.ok.
awaitedResumeAlwaysOk(s, k, settled) ==
  IF settled.state = "fulfilled"
    THEN [kind |-> "resolve", value |-> Ref(Len(s.innerResult) + 1),
          s |-> ResultOk(s, <<settled.value>>).s]
    ELSE Reject(s, settled.value)

\* awaited() resumed in branch k, catching a rejection into an Err.
awaitedResumeCatching(s, k, settled) ==
  LET r == IF k = "ok" /\ settled.state = "fulfilled"
             THEN ResultOk(s, <<settled.value>>)
             ELSE ResultErr(s, <<settled.value>>)
  IN [kind |-> "resolve", value |-> r.value, s |-> r.s]

\* async awaited(), from the await of branch k on: the awaited promise has
\* settled.  Result.ok(await ...) or Result.err(await ...) when it is
\* fulfilled; a rejection is thrown by the await and rejects the call.
awaitedResume(s, k, settled) ==
  IF settled.state = "rejected"
    THEN Reject(s, settled.value)
    ELSE Then(IF k = "ok"
                THEN ResultOk(s, <<settled.value>>)
                ELSE ResultErr(s, <<settled.value>>),
              LAMBDA s1, r : Resolve(s1, r))

\* async awaited(), up to its completion or its await.
awaited(s, self) ==
  IF This(s, self).success
    THEN IF IsPromise(This(s, self).value)
           THEN Await(s, This(s, self).value, "ok")
           ELSE Then(ResultOk(s, <<This(s, self).value>>),
                     LAMBDA s1, r : Resolve(s1, r))
    ELSE IF IsPromise(This(s, self).value)
           THEN Await(s, This(s, self).value, "err")
           ELSE Then(ResultErr(s, <<This(s, self).value>>),
                     LAMBDA s1, r : Resolve(s1, r))

\* The object literal { isBreak, value } of type ControlFlow<Break, Continue>.
ControlFlow(isBreak, value) == [isBreak |-> isBreak, value |-> value]

\* branch that never breaks: a failure continues with its error.
branchNeverBreaks(s, self) == Return(s, ControlFlow(FALSE, This(s, self).value))

\* branch that transfers control itself: it throws the error of a failure.
branchThrowing(s, self) ==
  IF This(s, self).success
    THEN Return(s, ControlFlow(FALSE, This(s, self).value))
    ELSE Throw(s, This(s, self).value)

branch(s, self) ==
  Match(s, self,
        LAMBDA s1, value : Return(s1, ControlFlow(FALSE, value)),
        LAMBDA s1, e : Return(s1, ControlFlow(TRUE, Ref(self))))

Idle ==
  [op |-> "idle", self |-> 0, args |-> <<>>, kind |-> "return",
   value |-> undefined, calls |-> <<>>]

\* No routine is running.
NoRoutine ==
  [pc |-> "idle", steps |-> <<>>, evaluated |-> <<>>, results |-> <<>>,
   got |-> <<>>, value |-> undefined]

\* No pipeline is running.
NoPipe ==
  [pc |-> "idle", fns |-> <<>>, start |-> 0, cur |-> undefined,
   invoked |-> <<>>, results |-> <<>>]

\* validate has not been called.
NoValidate ==
  [pc |-> "idle", requests |-> <<>>, body |-> undefined, kind |-> "pending",
   value |-> undefined]

Init ==
  /\ innerResult = <<>>
  /\ made = <<>>
  /\ panics = <<>>
  /\ last = Idle
  /\ routine = NoRoutine
  /\ pipe = NoPipe
  /\ promises = <<>>
  /\ tasks = <<>>
  /\ turnstile = NoValidate

\* The caller applies op to self with args; c is its completion.
Do(op, self, args, c) ==
  /\ last.op = "idle"
  /\ Len(c.s.innerResult) <= MaxObjs
  /\ innerResult' = c.s.innerResult
  /\ made' = c.s.made
  /\ panics' = c.s.panics
  /\ last' = [op |-> op, self |-> self, args |-> args, kind |-> c.kind,
              value |-> c.value, calls |-> c.s.calls]
  /\ UNCHANGED <<routine, pipe, promises, tasks, turnstile>>

\* Result.ok(v) and Result.ok()
CallResultOk ==
  \E args \in {<<>>} \cup {<<v>> : v \in Payloads} :
    Do("Result.ok", 0, args, ResultOk(Store, args))

\* Result.err(e)
CallResultErr ==
  \E e \in Payloads : Do("Result.err", 0, <<e>>, ResultErr(Store, <<e>>))

CallIsOk == \E self \in Objs : Do("isOk", self, <<>>, isOk(Store, self))

CallIsErr == \E self \in Objs : Do("isErr", self, <<>>, isErr(Store, self))

CallIsOkAnd ==
  \E self \in Objs, f \in Predicates :
    Do("isOkAnd", self, <<f>>, isOkAnd(Store, self, f))

CallIsErrAnd ==
  \E self \in Objs, f \in Predicates :
    Do("isErrAnd", self, <<f>>, isErrAnd(Store, self, f))

\* The ways to pass the optional flag noneSymbol.
Flags == {<<>>, <<false>>, <<true>>}

CallOk ==
  \E self \in Objs, args \in Flags : Do("ok", self, args, ok(Store, self, args))

CallErr ==
  \E self \in Objs, args \in Flags : Do("err", self, args, err(Store, self, args))

CallMap ==
  \E self \in Objs, op \in ValueCallbacks :
    Do("map", self, <<op>>, map(Store, self, op))

CallMapOr ==
  \E self \in Objs, d \in {null, Num(2)}, f \in ValueCallbacks :
    Do("mapOr", self, <<d, f>>, mapOr(Store, self, d, f))

CallMapOrElse ==
  \E self \in Objs, d \in ValueCallbacks, f \in ValueCallbacks :
    Do("mapOrElse", self, <<d, f>>, mapOrElse(Store, self, d, f))

CallMapErr ==
  \E self \in Objs, op \in ValueCallbacks :
    Do("mapErr", self, <<op>>, mapErr(Store, self, op))

CallInspect ==
  \E self \in Objs, f \in ValueCallbacks :
    Do("inspect", self, <<f>>, inspect(Store, self, f))

CallInspectErr ==
  \E self \in Objs, f \in ValueCallbacks :
    Do("inspectErr", self, <<f>>, inspectErr(Store, self, f))

CallAnd ==
  \E self \in Objs, res \in Objs :
    Do("and", self, <<Ref(res)>>, and(Store, self, Ref(res)))

CallAndThen ==
  \E self \in Objs, op \in ResultCallbacks :
    Do("andThen", self, <<op>>, andThen(Store, self, op))

CallOr ==
  \E self \in Objs, res \in Objs :
    Do("or", self, <<Ref(res)>>, or(Store, self, Ref(res)))

CallOrElse ==
  \E self \in Objs, op \in ResultCallbacks :
    Do("orElse", self, <<op>>, orElse(Store, self, op))

CallUnwrap == \E self \in Objs : Do("unwrap", self, <<>>, unwrap(Store, self))

CallUnwrapOr ==
  \E self \in Objs, d \in Payloads :
    Do("unwrapOr", self, <<d>>, unwrapOr(Store, self, d))

CallUnwrapOrElse ==
  \E self \in Objs, g \in ValueCallbacks :
    Do("unwrapOrElse", self, <<g>>, unwrapOrElse(Store, self, g))

CallOrThrow == \E self \in Objs : Do("orThrow", self, <<>>, orThrow(Store, self))

CallMatch ==
  \E self \in Objs, okFn \in ValueCallbacks, errFn \in ValueCallbacks :
    Do("match", self, <<okFn, errFn>>, match(Store, self, okFn, errFn))

CallBranch == \E self \in Objs : Do("branch", self, <<>>, branch(Store, self))

CallAwaited == \E self \in Objs : Do("awaited", self, <<>>, awaited(Store, self))

\* The caller drops the completion it holds and goes on.
Continue ==
  /\ last.op # "idle"
  /\ last' = Idle
  /\ panics' = <<>>
  /\ UNCHANGED <<innerResult, made, routine, pipe, promises, tasks, turnstile>>

Next ==
  \/ CallResultOk
  \/ CallResultErr
  \/ CallIsOk
  \/ CallIsErr
  \/ CallIsOkAnd
  \/ CallIsErrAnd
  \/ CallOk
  \/ CallErr
  \/ CallMap
  \/ CallMapOr
  \/ CallMapOrElse
  \/ CallMapErr
  \/ CallInspect
  \/ CallInspectErr
  \/ CallAnd
  \/ CallAndThen
  \/ CallOr
  \/ CallOrElse
  \/ CallUnwrap
  \/ CallUnwrapOr
  \/ CallUnwrapOrElse
  \/ CallOrThrow
  \/ CallMatch
  \/ CallBranch
  \/ CallAwaited
  \/ Continue

Spec == Init /\ [][Next]_vars

(***************************************************************************)
(* Properties.  They speak of the operation the caller applied last: its   *)
(* receiver as it was constructed, its arguments, the callbacks it invoked *)
(* and its completion.                                                     *)
(***************************************************************************)

\* Object a was made by Result.ok.
WasOk(a) == made[a].factory = "ok"

\* The payload object a was constructed with.
Given(a) == Arg(made[a].args, 1)

\* The last operation was op, applied to a Result object.
Applied(op) == last.op = op /\ last.self \in Objs

\* The last operation completed as the call it logged at position i did.
CompletedAs(i) ==
  /\ last.kind = last.calls[i].kind
  /\ last.value = last.calls[i].value

\* C1: r.match(onOk, onErr) invokes exactly one handler exactly once, onOk
\* with the payload when r is a success and onErr with the payload when r is
\* a failure, never the handler of the inactive variant, and completes with
\* what that handler completed with (its return value when it returns).
C1_MatchInvokesOneHandler ==
  Applied("match") =>
    /\ Len(last.calls) = 1
    /\ last.calls[1].param = (IF WasOk(last.self) THEN "ok" ELSE "err")
    /\ last.calls[1].args = <<Given(last.self)>>
    /\ CompletedAs(1)

\* match on err(1) with an ok handler that throws and an err handler
\* returning the other number has returned 2.
C1_Witness ==
  /\ Applied("match")
  /\ ~WasOk(last.self)
  /\ Given(last.self) = Num(1)
  /\ last.args = <<Fn("throw", Num(2)), Fn("next", undefined)>>
  /\ last.kind = "return"
  /\ last.value = Num(2)

\* What the observer op, called without arguments, returns on object a
\* according to how a was constructed.
Observed(op, a) ==
  CASE op = "isOk" -> Bool(WasOk(a))
    [] op = "isErr" -> Bool(~WasOk(a))
    [] op = "ok" -> IF WasOk(a) THEN Given(a) ELSE null
    [] op = "err" -> IF WasOk(a) THEN null ELSE Given(a)

\* C2: Result.ok(v) has isOk() = true, isErr() = false, ok() = v (undefined
\* when the argument was omitted) and err() = null; Result.err(e) has
\* isOk() = false, isErr() = true, err() = e and ok() = null; and isOk() and
\* isErr() disagree on every Result.
C2_ConstructorsAndObservers ==
  /\ \A op \in {"isOk", "isErr", "ok", "err"} :
       Applied(op) /\ ~Truthy(Arg(last.args, 1)) =>
         last.kind = "return" /\ last.value = Observed(op, last.self)
  /\ \A a \in Objs : isOk(Store, a).value # isErr(Store, a).value

\* ok() on the Result made by Result.ok() with no argument returned undefined.
C2_Witness ==
  /\ Applied("ok")
  /\ last.args = <<>>
  /\ made[last.self] = [factory |-> "ok", args |-> <<>>]
  /\ last.value = undefined

\* C3: in sentinel mode err(e).ok(true) and ok(v).err(true) return
\* Result.none, ok(v).ok(true) = v and err(e).err(true) = e; Result.none is
\* not null, and for every legitimate payload v (any value but Result.none
\* itself) what ok(v).ok(true) returns differs from what err(e).ok(true)
\* returns, and what err(v).err(true) returns differs from what
\* ok(x).err(true) returns.
C3_SentinelMode ==
  /\ none # null
  /\ Applied("ok") /\ Truthy(Arg(last.args, 1)) =>
       /\ last.kind = "return"
       /\ last.value = (IF WasOk(last.self) THEN Given(last.self) ELSE none)
  /\ Applied("err") /\ Truthy(Arg(last.args, 1)) =>
       /\ last.kind = "return"
       /\ last.value = (IF WasOk(last.self) THEN none ELSE Given(last.self))
  /\ \A a, b \in Objs :
       WasOk(a) /\ ~WasOk(b) =>
         /\ Given(a) # none =>
              ok(Store, a, <<true>>).value # ok(Store, b, <<true>>).value
         /\ Given(b) # none =>
              err(Store, b, <<true>>).value # err(Store, a, <<true>>).value

\* ok(true) on err(e) returned the sentinel while an ok(null) exists, whose
\* ok(true) is null.
C3_Witness ==
  /\ Applied("ok")
  /\ last.args = <<true>>
  /\ ~WasOk(last.self)
  /\ last.value = none
  /\ \E a \in Objs : WasOk(a) /\ Given(a) = null

\* C4: unwrap() on ok(v) returns v; unwrap() on err(e) returns nothing and
\* throws a Panic, an object that is not e, whose cause is e.
C4_UnwrapPanics ==
  Applied("unwrap") =>
    IF WasOk(last.self)
      THEN last.kind = "return" /\ last.value = Given(last.self)
      ELSE /\ last.kind = "throw"
           /\ last.value.tag = "Panic"
           /\ last.value # Given(last.self)
           /\ last.value.v \in DOMAIN panics
           /\ panics[last.value.v].cause = Given(last.self)

\* unwrap() on err(1) has thrown a Panic whose cause is 1.
C4_Witness ==
  /\ Applied("unwrap")
  /\ ~WasOk(last.self)
  /\ Given(last.self) = Num(1)
  /\ last.kind = "throw"
  /\ panics = <<[message |-> PanicMessage, cause |-> Num(1)]>>

\* C5: orThrow() on ok(v) returns v; orThrow() on err(e) throws e itself:
\* no Panic and no other error object is made for it.
C5_OrThrowRethrowsPayload ==
  Applied("orThrow") =>
    IF WasOk(last.self)
      THEN last.kind = "return" /\ last.value = Given(last.self)
      ELSE /\ last.kind = "throw"
           /\ last.value = Given(last.self)
           /\ panics = <<>>

\* orThrow() on err(null) has thrown null.
C5_Witness ==
  /\ Applied("orThrow")
  /\ ~WasOk(last.self)
  /\ Given(last.self) = null
  /\ last.kind = "throw"
  /\ last.value = null

\* The operations said to be fault-free: all but unwrap and orThrow.
FaultFreeOps ==
  {"isOk", "isOkAnd", "isErr", "isErrAnd", "ok", "err", "map", "mapErr",
   "mapOr", "mapOrElse", "and", "andThen", "or", "orElse", "inspect",
   "inspectErr", "unwrapOr", "unwrapOrElse", "match", "branch"}

\* Those of them that take no callback.
CallbackFreeOps == {"isOk", "isErr", "ok", "err", "and", "or", "unwrapOr", "branch"}

\* Some callback the last operation invoked threw.
SomeCallThrew == \E i \in DOMAIN last.calls : last.calls[i].kind = "throw"

\* C6 as stated: every operation but unwrap and orThrow returns a value and
\* never raises, whatever the Result and the arguments, callbacks included.
C6_NeverRaises ==
  \A op \in FaultFreeOps : Applied(op) => last.kind = "return"

\* C6 amended: an operation other than unwrap and orThrow raises no fault of
\* its own.  It returns a value unless a callback it invoked raised; then it
\* raises exactly what that callback raised, which was the last thing it
\* did.  The operations that take no callback always return.
C6_RaisesOnlyWhatACallbackRaised ==
  \A op \in FaultFreeOps :
    Applied(op) =>
      /\ (last.kind = "throw") = SomeCallThrew
      /\ last.kind = "throw" =>
           /\ last.calls # <<>>
           /\ CompletedAs(Len(last.calls))
      /\ op \in CallbackFreeOps => last.kind = "return" /\ last.calls = <<>>

\* map on ok(1) with a callback that throws 2 has thrown 2.
C6_Witness ==
  /\ Applied("map")
  /\ WasOk(last.self)
  /\ last.args = <<Fn("throw", Num(2))>>
  /\ last.kind = "throw"
  /\ last.value = Num(2)

\* C7: a Result never changes after construction: whatever operations have
\* been applied, with whatever arguments, every Result has the variant and
\* the payload it was constructed with.
C7_NeverChanges ==
  \A a \in Objs :
    innerResult[a] = [success |-> WasOk(a), value |-> Given(a)]

\* map was applied to ok(1) with a callback returning 2: a second Result
\* carries 2 and the receiver still carries 1.
C7_Witness ==
  /\ Applied("map")
  /\ WasOk(last.self)
  /\ Given(last.self) = Num(1)
  /\ last.args = <<Fn("next", undefined)>>
  /\ last.value.tag = "Result"
  /\ last.value.v # last.self
  /\ innerResult[last.value.v].value = Num(2)

\* f(x), for a callback f that makes no Result.
Of(f, x) == Apply(Store, f, <<x>>)

\* v is a reference to a Result of the given variant carrying payload x.
IsResult(v, success, x) ==
  /\ v.tag = "Result"
  /\ v.v \in Objs
  /\ innerResult[v.v] = [success |-> success, value |-> x]

\* C8: ok(v).map(f) is a success carrying f(v) and err(e).map(f) is the
\* failure carrying e, the receiver unchanged, f not invoked;
\* err(e).mapErr(f) is a failure carrying f(e) and ok(v).mapErr(f) is the
\* success carrying v, the receiver unchanged, f not invoked.
C8_MapLaws ==
  /\ Applied("map") =>
       LET fv == Of(last.args[1], Given(last.self)) IN
       IF WasOk(last.self)
         THEN fv.kind = "return" =>
                last.kind = "return" /\ IsResult(last.value, TRUE, fv.value)
         ELSE /\ last.kind = "return"
              /\ last.value = Ref(last.self)
              /\ IsResult(last.value, FALSE, Given(last.self))
              /\ last.calls = <<>>
  /\ Applied("mapErr") =>
       LET fe == Of(last.args[1], Given(last.self)) IN
       IF ~WasOk(last.self)
         THEN fe.kind = "return" =>
                last.kind = "return" /\ IsResult(last.value, FALSE, fe.value)
         ELSE /\ last.kind = "return"
              /\ last.value = Ref(last.self)
              /\ IsResult(last.value, TRUE, Given(last.self))
              /\ last.calls = <<>>

\* mapErr on err(1) with a callback returning the other number has returned
\* a failure carrying 2.
C8_Witness ==
  /\ Applied("mapErr")
  /\ ~WasOk(last.self)
  /\ Given(last.self) = Num(1)
  /\ last.args = <<Fn("next", undefined)>>
  /\ last.kind = "return"
  /\ IsResult(last.value, FALSE, Num(2))

\* The last operation invoked its callback op once, on x, and completed as
\* that call did.
IsCallOf(x) ==
  /\ Len(last.calls) = 1
  /\ last.calls[1].param = "op"
  /\ last.calls[1].args = <<x>>
  /\ CompletedAs(1)

\* The last operation returned its receiver and invoked nothing.
IsReceiver ==
  /\ last.kind = "return"
  /\ last.value = Ref(last.self)
  /\ last.calls = <<>>

\* The last operation returned its argument res and invoked nothing.
IsOther ==
  /\ last.kind = "return"
  /\ last.value = last.args[1]
  /\ last.calls = <<>>

\* C9: ok(v).and(other) is other and err(e).and(other) is the receiver;
\* ok(v).andThen(f) is f(v) and err(e).andThen(f) is the receiver;
\* ok(v).or(other) is the receiver and err(e).or(other) is other;
\* ok(v).orElse(f) is the receiver and err(e).orElse(f) is f(e).
C9_ShortCircuit ==
  /\ Applied("and") => IF WasOk(last.self) THEN IsOther ELSE IsReceiver
  /\ Applied("andThen") =>
       IF WasOk(last.self) THEN IsCallOf(Given(last.self)) ELSE IsReceiver
  /\ Applied("or") => IF WasOk(last.self) THEN IsReceiver ELSE IsOther
  /\ Applied("orElse") =>
       IF WasOk(last.self) THEN IsReceiver ELSE IsCallOf(Given(last.self))

\* or on err(e) has returned the other Result, a success, where and would
\* have returned the receiver.
C9_Witness ==
  /\ Applied("or")
  /\ ~WasOk(last.self)
  /\ last.value.tag = "Result"
  /\ last.value.v # last.self
  /\ WasOk(last.value.v)

\* C10 as stated: unwrapOr(d) and unwrapOrElse(g) never fail.
C10_NeverFail ==
  Applied("unwrapOr") \/ Applied("unwrapOrElse") => last.kind = "return"

\* C10 amended: unwrapOr(d) never fails; unwrapOrElse(g) fails only on
\* err(e) when g itself raises, and then raises what g raised.  On ok(v) both
\* return v and g is not invoked; on err(e) unwrapOr(d) returns d and
\* unwrapOrElse(g) invokes g exactly once, without arguments, and completes
\* as g() did.
C10_UnwrapOrDefaults ==
  /\ Applied("unwrapOr") =>
       /\ last.kind = "return"
       /\ last.value = (IF WasOk(last.self) THEN Given(last.self) ELSE last.args[1])
       /\ last.calls = <<>>
  /\ Applied("unwrapOrElse") =>
       IF WasOk(last.self)
         THEN /\ last.kind = "return"
              /\ last.value = Given(last.self)
              /\ last.calls = <<>>
         ELSE /\ Len(last.calls) = 1
              /\ last.calls[1].param = "defaultValue"
              /\ last.calls[1].args = <<>>
              /\ CompletedAs(1)
              /\ LET g == Apply(Store, last.args[1], <<>>) IN
                 last.kind = g.kind /\ last.value = g.value

\* unwrapOrElse on err(1) with g = (x) => x has returned undefined: g was
\* given no argument, not the error.
C10_Witness ==
  /\ Applied("unwrapOrElse")
  /\ ~WasOk(last.self)
  /\ Given(last.self) = Num(1)
  /\ last.args = <<Fn("id", undefined)>>
  /\ last.kind = "return"
  /\ last.value = undefined

\* C11: branch() on ok(v) returns {isBreak: false, value: v}; branch() on
\* err(e) returns {isBreak: true, value: R} with R the receiver itself, a
\* failure carrying e; branch returns normally in both cases: it raises
\* nothing, invokes nothing and transfers no control.
C11_Branch ==
  Applied("branch") =>
    /\ last.kind = "return"
    /\ last.calls = <<>>
    /\ IF WasOk(last.self)
         THEN last.value = ControlFlow(FALSE, Given(last.self))
         ELSE /\ last.value = ControlFlow(TRUE, Ref(last.self))
              /\ IsResult(last.value.value, FALSE, Given(last.self))

\* branch() on err(1) has returned a Break holding the receiver.
C11_Witness ==
  /\ Applied("branch")
  /\ ~WasOk(last.self)
  /\ Given(last.self) = Num(1)
  /\ last.kind = "return"
  /\ last.value.isBreak
  /\ last.value.value = Ref(last.self)

\* The operations that take a callback over the success payload, with the
\* name of that parameter.
OkCallbackOf ==
  [isOkAnd |-> "f", map |-> "op", mapOr |-> "f", mapOrElse |-> "f",
   andThen |-> "op", inspect |-> "f"]

\* The operations that take a callback over the error payload, with the name
\* of that parameter.
ErrCallbackOf ==
  [isErrAnd |-> "f", mapErr |-> "op", mapOrElse |-> "defaultValue",
   orElse |-> "op", inspectErr |-> "f"]

\* The parameters whose callbacks the last operation invoked, in order.
Invoked == [i \in DOMAIN last.calls |-> last.calls[i].param]

\* The callbacks operation op is to invoke on a receiver of the given
\* variant: its callback over that variant's payload, if it has one.
ToInvoke(op, success) ==
  LET table == IF success THEN OkCallbackOf ELSE ErrCallbackOf IN
  IF op \in DOMAIN table THEN <<table[op]>> ELSE <<>>

\* C16: an operation never invokes a callback over the success payload on a
\* failure nor a callback over the error payload on a success; on the
\* matching variant it invokes the callback exactly once, with the
\* receiver's payload.  isOkAnd and isErrAnd return false on the other
\* variant.  inspect and inspectErr return on the other variant, and
\* whenever they return, on either variant, they return the receiver itself.
C16_VariantDirectedDispatch ==
  /\ \A op \in DOMAIN OkCallbackOf \cup DOMAIN ErrCallbackOf :
       Applied(op) =>
         /\ Invoked = ToInvoke(op, WasOk(last.self))
         /\ \A i \in DOMAIN last.calls :
              last.calls[i].args = <<Given(last.self)>>
  /\ Applied("isOkAnd") /\ ~WasOk(last.self) =>
       last.kind = "return" /\ last.value = false
  /\ Applied("isErrAnd") /\ WasOk(last.self) =>
       last.kind = "return" /\ last.value = false
  /\ Applied("inspect") =>
       /\ ~WasOk(last.self) => last.kind = "return"
       /\ last.kind = "return" => last.value = Ref(last.self)
  /\ Applied("inspectErr") =>
       /\ WasOk(last.self) => last.kind = "return"
       /\ last.kind = "return" => last.value = Ref(last.self)

\* inspectErr on ok(1) with a callback that throws has returned the receiver
\* without invoking it.
C16_Witness ==
  /\ Applied("inspectErr")
  /\ WasOk(last.self)
  /\ last.args = <<Fn("throw", Num(2))>>
  /\ last.calls = <<>>
  /\ last.kind = "return"
  /\ last.value = Ref(last.self)

(***************************************************************************)
(* The early-return protocol.  A routine evaluates fallible steps in       *)
(* order; after each it calls branch() on the step's Result and returns    *)
(* result.value when isBreak is true, and otherwise continues with         *)
(* result.value.  After its last step it returns Result.ok(false).         *)
(***************************************************************************)

\* The fallible steps: () => Result.ok(c) and () => Result.err(c).
Steps ==
  {Fn("returnOk", Num(1)), Fn("returnOk", Num(2)),
   Fn("returnError", Num(1)), Fn("returnError", Num(2))}

\* The sequences over S of length 1 to n.
SeqsUpTo(S, n) == UNION {[1..k -> S] : k \in 1..n}

\* step()
Evaluate(s, step) ==
  IF step.kind = "returnOk"
    THEN ResultOk(s, <<step.c>>)
    ELSE ResultErr(s, <<step.c>>)

\* The routine is called.
RoutineCall ==
  /\ routine.pc = "idle"
  /\ \E steps \in SeqsUpTo(Steps, MaxSteps) :
       routine' = [NoRoutine EXCEPT !.pc = "running", !.steps = steps]
  /\ UNCHANGED <<innerResult, made, panics, last, pipe, promises, tasks, turnstile>>

\* const result = step().branch(); if (result.isBreak) return result.value;
\* and, after the last step, return Result.ok(false).
RoutineStep ==
  /\ routine.pc = "running"
  /\ LET i == Len(routine.evaluated) + 1
         r == Evaluate(Store, routine.steps[i])
         b == branch(r.s, r.value.v)
         final == ResultOk(b.s, <<false>>)
         seen == [routine EXCEPT !.evaluated = Append(@, i),
                                 !.results = Append(@, r.value)]
         c == CASE b.kind = "throw" ->
                     [s |-> b.s,
                      rt |-> [seen EXCEPT !.pc = "thrown", !.value = b.value]]
                [] b.kind = "return" /\ b.value.isBreak ->
                     [s |-> b.s,
                      rt |-> [seen EXCEPT !.pc = "returned",
                                          !.value = b.value.value]]
                [] b.kind = "return" /\ ~b.value.isBreak /\ i < Len(routine.steps) ->
                     [s |-> b.s,
                      rt |-> [seen EXCEPT !.got = Append(@, b.value.value)]]
                [] OTHER ->
                     [s |-> final.s,
                      rt |-> [seen EXCEPT !.got = Append(@, b.value.value),
                                          !.pc = "returned",
                                          !.value = final.value]]
     IN /\ routine' = c.rt
        /\ innerResult' = c.s.innerResult
        /\ made' = c.s.made
        /\ panics' = c.s.panics
  /\ UNCHANGED <<last, pipe, promises, tasks, turnstile>>

NextRoutine ==
  \/ RoutineCall
  \/ RoutineStep

SpecRoutine == Init /\ [][NextRoutine]_vars

\* The steps of the routine that fail.
Failing == {i \in DOMAIN routine.steps : routine.steps[i].kind = "returnError"}

\* The first of them.
FirstFailing == CHOOSE i \in Failing : \A j \in Failing : i <= j

\* The payloads of the first n steps.
PayloadsOf(n) == [i \in 1..n |-> routine.steps[i].c]

\* C12: the routine evaluates its steps in order and evaluates none after the
\* first failing one; it returns the failure that step produced, carrying
\* that step's error; what it continues with after a succeeding step is the
\* step's success payload; and when no step fails it evaluates every step
\* and reaches its own final result.
C12_EarlyReturn ==
  /\ routine.pc # "thrown"
  /\ routine.evaluated = [i \in 1..Len(routine.evaluated) |-> i]
  /\ \A i \in DOMAIN routine.evaluated : \A j \in Failing : i <= j
  /\ routine.pc = "running" => routine.got = PayloadsOf(Len(routine.evaluated))
  /\ routine.pc = "returned" =>
       IF Failing # {}
         THEN /\ Len(routine.evaluated) = FirstFailing
              /\ routine.got = PayloadsOf(FirstFailing - 1)
              /\ routine.value = routine.results[FirstFailing]
              /\ IsResult(routine.value, FALSE, routine.steps[FirstFailing].c)
         ELSE /\ Len(routine.evaluated) = Len(routine.steps)
              /\ routine.got = PayloadsOf(Len(routine.steps))
              /\ IsResult(routine.value, TRUE, false)
              /\ \A i \in DOMAIN routine.results : routine.results[i] # routine.value

\* A routine of three steps whose second step fails with 2 has returned a
\* failure carrying 2 without evaluating its third step.
C12_Witness ==
  /\ routine.pc = "returned"
  /\ routine.steps =
       <<Fn("returnOk", Num(1)), Fn("returnError", Num(2)), Fn("returnOk", Num(1))>>
  /\ routine.evaluated = <<1, 2>>
  /\ routine.got = <<Num(1)>>
  /\ IsResult(routine.value, FALSE, Num(2))

(***************************************************************************)
(* Pipelines.  r.andThen(f1).andThen(f2)...andThen(fn), one andThen at a   *)
(* time: each is applied to what the one before it returned.               *)
(***************************************************************************)

\* The receivers of a pipeline: Result.ok(v) and Result.err(e).
PipeReceivers ==
  {Fn("returnOk", Num(1)), Fn("returnOk", Num(2)),
   Fn("returnError", Num(1)), Fn("returnError", Num(2))}

\* The functions of a pipeline: (x) => Result.ok(x), (x) => Result.err(x),
\* (x) => { throw 2 } and (x) => r, the receiver of the pipeline.
PipeCallbacks ==
  {Fn("ok", undefined), Fn("err", undefined), Fn("throw", Num(2)),
   Fn("const", Ref(1))}

\* r is constructed and the pipeline over it begins.
PipeStart ==
  /\ pipe.pc = "idle"
  /\ innerResult = <<>>
  /\ \E r \in PipeReceivers, fns \in SeqsUpTo(PipeCallbacks, MaxPipe) :
       LET c == Evaluate(Store, r) IN
       /\ pipe' = [NoPipe EXCEPT !.pc = "running", !.fns = fns,
                                 !.start = c.value.v, !.cur = c.value]
       /\ innerResult' = c.s.innerResult
       /\ made' = c.s.made
  /\ UNCHANGED <<panics, last, routine, promises, tasks, turnstile>>

\* The next .andThen(fi) of the pipeline.
PipeStep ==
  /\ pipe.pc = "running"
  /\ LET i == Len(pipe.results) + 1
         c == andThen(Store, pipe.cur.v, pipe.fns[i])
     IN /\ pipe' =
             [pipe EXCEPT
                !.pc = IF c.kind = "throw" THEN "thrown"
                       ELSE IF i = Len(pipe.fns) THEN "done" ELSE "running",
                !.cur = c.value,
                !.invoked = @ \o [j \in DOMAIN c.s.calls |-> i],
                !.results = Append(@, [kind |-> c.kind, value |-> c.value,
                                       calls |-> c.s.calls])]
        /\ innerResult' = c.s.innerResult
        /\ made' = c.s.made
        /\ panics' = c.s.panics
  /\ UNCHANGED <<last, routine, promises, tasks, turnstile>>

NextPipe ==
  \/ PipeStart
  \/ PipeStep

SpecPipe == Init /\ [][NextPipe]_vars

\* The Results of the pipeline so far: r, then what each andThen returned.
Chain ==
  <<Ref(pipe.start)>>
    \o [i \in {j \in DOMAIN pipe.results : pipe.results[j].kind = "return"}
          |-> pipe.results[i].value]

\* x refers to a failure.
IsFailure(x) == ~innerResult[x.v].success

\* The positions of the chain that hold a failure.
Failures == {i \in DOMAIN Chain : IsFailure(Chain[i])}

\* The first of them.
FirstFailure == CHOOSE i \in Failures : \A j \in Failures : i <= j

\* C17: the functions of a pipeline are invoked in order f1, f2, ..., each
\* at most once and only while every Result before it is a success; once a
\* failure is produced no later fi is invoked and every later andThen
\* returns that very Result; the pipeline's result is the first failure
\* produced, or what fn returned when there is none.
C17_Pipeline ==
  pipe.pc # "idle" =>
    /\ pipe.invoked = [i \in 1..Len(pipe.invoked) |-> i]
    /\ \A i \in DOMAIN pipe.invoked : \A j \in 1..i : ~IsFailure(Chain[j])
    /\ \A i \in DOMAIN pipe.results :
         pipe.results[i].calls # <<>> =>
           /\ Len(pipe.results[i].calls) = 1
           /\ pipe.results[i].calls[1].args = <<innerResult[Chain[i].v].value>>
    /\ \A i \in Failures : \A j \in DOMAIN Chain : j >= i => Chain[j] = Chain[i]
    /\ pipe.pc = "done" =>
         IF Failures # {}
           THEN /\ pipe.cur = Chain[FirstFailure]
                /\ Len(pipe.invoked) = FirstFailure - 1
           ELSE /\ Len(pipe.invoked) = Len(pipe.fns)
                /\ pipe.cur = pipe.results[Len(pipe.fns)].calls[1].value

\* Result.ok(1).andThen(ok).andThen(err).andThen(ok) is done: f1 and f2 were
\* invoked, f3 was not, and the result is the failure f2 made.
C17_Witness ==
  /\ pipe.pc = "done"
  /\ made[pipe.start] = [factory |-> "ok", args |-> <<Num(1)>>]
  /\ pipe.fns = <<Fn("ok", undefined), Fn("err", undefined), Fn("ok", undefined)>>
  /\ pipe.invoked = <<1, 2>>
  /\ pipe.cur = pipe.results[2].value
  /\ IsResult(pipe.cur, FALSE, Num(1))

(***************************************************************************)
(* Asynchronous normalisation.  Callers construct Results whose payload is *)
(* a plain value or a pending promise and call awaited() on them; promises *)
(* settle in any order and at any time; a call suspended at its await      *)
(* resumes once the promise it awaits has settled.                         *)
(***************************************************************************)

\* A reference to promise p.
PromiseRef(p) == Val("Promise", p)

\* The Results made by calls of awaited().
Awaited == UNION {tasks[t].allocated : t \in DOMAIN tasks}

\* The Results made by callers.
Receivers == Objs \ Awaited

\* Result.ok(x) or Result.err(x), with x the plain value 1 or a new pending
\* promise.
AsyncConstruct ==
  /\ Cardinality(Receivers) < MaxObjs
  /\ \E factory \in {"returnOk", "returnError"}, pending \in BOOLEAN :
       LET x == IF pending THEN PromiseRef(Len(promises) + 1) ELSE Num(1)
           c == Evaluate(Store, Fn(factory, x))
       IN /\ innerResult' = c.s.innerResult
          /\ made' = c.s.made
          /\ promises' = IF pending
                           THEN Append(promises, [state |-> "pending",
                                                  value |-> undefined])
                           ELSE promises
  /\ UNCHANGED <<panics, last, routine, pipe, tasks, turnstile>>

\* A pending promise is fulfilled with 2 or rejected with 1.
Settle ==
  /\ \E p \in DOMAIN promises :
       /\ promises[p].state = "pending"
       /\ \E outcome \in {[state |-> "fulfilled", value |-> Num(2)],
                          [state |-> "rejected", value |-> Num(1)]} :
            promises' = [promises EXCEPT ![p] = outcome]
  /\ UNCHANGED <<innerResult, made, panics, last, routine, pipe, tasks, turnstile>>

\* The task of a call of awaited() on self that completed as c, having
\* waited or not, in a heap that had n objects before.
Task(self, c, waited, on, n) ==
  [self |-> self,
   state |-> CASE c.kind = "resolve" -> "fulfilled"
               [] c.kind = "reject" -> "rejected"
               [] OTHER -> "awaiting",
   branch |-> IF c.kind = "await" THEN c.branch ELSE "none",
   on |-> IF c.kind = "await" THEN c.value ELSE on,
   value |-> IF c.kind = "await" THEN undefined ELSE c.value,
   waited |-> waited,
   allocated |-> (n + 1)..Len(c.s.innerResult)]

\* r.awaited() is called.
AwaitedCall ==
  /\ Len(tasks) < MaxTasks
  /\ \E self \in Receivers :
       LET c == awaited(Store, self) IN
       /\ tasks' = Append(tasks, Task(self, c, c.kind = "await", undefined,
                                      Len(innerResult)))
       /\ innerResult' = c.s.innerResult
       /\ made' = c.s.made
  /\ UNCHANGED <<panics, last, routine, pipe, promises, turnstile>>

\* The call t of awaited() resumes: the promise it awaits has settled.
AwaitedResume(t) ==
  /\ t \in DOMAIN tasks
  /\ tasks[t].state = "awaiting"
  /\ promises[tasks[t].on.v].state # "pending"
  /\ LET c == awaitedResume(Store, tasks[t].branch, promises[tasks[t].on.v]) IN
     /\ tasks' = [tasks EXCEPT
                    ![t] = Task(tasks[t].self, c, TRUE, tasks[t].on,
                                Len(innerResult))]
     /\ innerResult' = c.s.innerResult
     /\ made' = c.s.made
  /\ UNCHANGED <<panics, last, routine, pipe, promises, turnstile>>

Resume == \E t \in 1..MaxTasks : AwaitedResume(t)

NextAsync ==
  \/ AsyncConstruct
  \/ Settle
  \/ AwaitedCall
  \/ Resume

SpecAsync == Init /\ [][NextAsync]_vars

\* The event loop runs every continuation that is ready.
SpecAsyncFair == SpecAsync /\ \A t \in 1..MaxTasks : WF_vars(AwaitedResume(t))

\* The promise that call t of awaited() awaits or awaited.
AwaitedPromise(t) == promises[tasks[t].on.v]

\* Call t of awaited() has completed with a new Result of its receiver's
\* variant carrying x.
Yields(t, x) ==
  /\ tasks[t].state = "fulfilled"
  /\ IsResult(tasks[t].value, WasOk(tasks[t].self), x)
  /\ tasks[t].value.v # tasks[t].self
  /\ tasks[t].allocated = {tasks[t].value.v}

\* Whatever calls of awaited() run concurrently and in whatever order their
\* promises settle: a call on a payload that is not pending has completed
\* without waiting, with a new Result of its receiver's variant carrying
\* that payload; a call on a pending payload waits for it, and when it has
\* completed with a Result, that is a new Result of its receiver's variant
\* carrying what the payload resolved to.
C13_VariantOfOwnReceiver ==
  \A t \in DOMAIN tasks :
    IF IsPromise(Given(tasks[t].self))
      THEN /\ tasks[t].waited
           /\ tasks[t].on = Given(tasks[t].self)
           /\ tasks[t].state = "fulfilled" =>
                /\ AwaitedPromise(t).state = "fulfilled"
                /\ Yields(t, AwaitedPromise(t).value)
      ELSE /\ ~tasks[t].waited
           /\ Yields(t, Given(tasks[t].self))

\* A call of awaited() whose pending payload has resolved eventually
\* completes with a Result.
C13_EventuallyYields ==
  \A t \in 1..MaxTasks :
    (/\ t \in DOMAIN tasks
     /\ tasks[t].state = "awaiting"
     /\ AwaitedPromise(t).state = "fulfilled")
      ~> (t \in DOMAIN tasks /\ tasks[t].state = "fulfilled")

\* C13: awaited() preserves the variant and resolves the payload: on a
\* pending payload resolving to x it eventually yields a new Result of the
\* receiver's variant carrying x; on a payload that is not pending it yields
\* a Result of the same variant and payload without waiting; and for any
\* concurrent calls and any order of resolution each returned Result has the
\* variant of its own receiver.
C13_AwaitedPreservesVariant ==
  []C13_VariantOfOwnReceiver /\ C13_EventuallyYields

\* Two calls run concurrently, the first on an ok and the second on an err,
\* both with pending payloads; the second completed first; each has yielded
\* a Result of its own receiver's variant carrying 2.
C13_Witness ==
  /\ Len(tasks) = 2
  /\ WasOk(tasks[1].self) /\ ~WasOk(tasks[2].self)
  /\ IsPromise(Given(tasks[1].self)) /\ IsPromise(Given(tasks[2].self))
  /\ tasks[1].state = "fulfilled" /\ tasks[2].state = "fulfilled"
  /\ tasks[2].value.v < tasks[1].value.v
  /\ IsResult(tasks[1].value, TRUE, Num(2))
  /\ IsResult(tasks[2].value, FALSE, Num(2))

\* C14: when the pending payload of a Result rejects, awaited(), on either
\* variant, completes by rejecting with that same reason; it does not
\* complete with a Result and makes none, so no Err wraps the reason.
C14_RejectionPropagates ==
  \A t \in DOMAIN tasks :
    /\ tasks[t].waited
    /\ tasks[t].state # "awaiting"
    /\ AwaitedPromise(t).state = "rejected"
    => /\ tasks[t].state = "rejected"
       /\ tasks[t].value = AwaitedPromise(t).value
       /\ tasks[t].allocated = {}

\* awaited() on an err whose pending payload was rejected with 1 has
\* rejected with 1; the receiver is the only Result there is.
C14_Witness ==
  /\ Len(tasks) = 1
  /\ ~WasOk(tasks[1].self)
  /\ tasks[1].state = "rejected"
  /\ tasks[1].value = Num(1)
  /\ Len(innerResult) = 1

(***************************************************************************)
(* CfTurnstile.  validate posts one request to the verification endpoint   *)
(* and maps the body of the response to a Result.  The network and the     *)
(* parse of the body settle on their own; either may fail.                 *)
(***************************************************************************)

\* A string value.
Str(x) == Val("string", x)

\* static ENDPOINT
ENDPOINT == "https://challenges.cloudflare.com/turnstile/v0/siteverify"

\* The secret keys of withAlwaysPassesToken, withAlwaysFailsToken and
\* withAlreadySpentErrorToken.
SecretKeys ==
  {"1x0000000000000000000000000000000AA", "2x0000000000000000000000000000000AA",
   "3x0000000000000000000000000000000AA"}

\* The ways to pass the optional parameters ip and idempotencyKey.
Optional(x) == {undefined, Str(""), Str(x)}

\* A response body { success, "error-codes" }.
Body(success, codes) == ("success" :> success) @@ ("error-codes" :> codes)

\* The bodies the endpoint answers with.
Bodies ==
  {Body(TRUE, <<>>),
   Body(TRUE, <<"bad-request">>),
   Body(FALSE, <<"invalid-input-response">>),
   Body(FALSE, <<"missing-input-secret", "timeout-or-duplicate">>)}

\* codes.join(sep)
RECURSIVE Join(_, _)
Join(codes, sep) ==
  IF codes = <<>> THEN ""
  ELSE IF Len(codes) = 1 THEN codes[1]
  ELSE codes[1] \o sep \o Join(Tail(codes), sep)

\* new TurnstileError(codes)
TurnstileError(codes) ==
  [name |-> "TurnstileError", codes |-> codes,
   message |-> "Cloudflare Turnstile returned error codes: '"
                 \o Join(codes, "', '") \o "'"]

\* The form validate fills in.
FormData(secretKey, token, ip, idempotencyKey) ==
  <<<<"secret", secretKey>>, <<"response", token>>>>
    \o (IF Truthy(ip) THEN <<<<"remoteip", ip.v>>>> ELSE <<>>)
    \o (IF Truthy(idempotencyKey)
          THEN <<<<"idempotency_key", idempotencyKey.v>>>> ELSE <<>>)

\* new Request(CfTurnstile.ENDPOINT, { body: formData, method: "POST" })
Request(form) == [url |-> ENDPOINT, method |-> "POST", body |-> form]

\* validate from its await on, with the success flag ignored.
validateResumeIgnoringFlag(s, response) ==
  [kind |-> "resolve", value |-> Ref(Len(s.innerResult) + 1),
   s |-> ResultOk(s, <<response>>).s]

\* validate from its await on: the body has arrived.
validateResume(s, response) ==
  IF response["success"]
    THEN Then(ResultOk(s, <<response>>), LAMBDA s1, r : Resolve(s1, r))
    ELSE Then(ResultErr(s, <<TurnstileError(response["error-codes"])>>),
              LAMBDA s1, r : Resolve(s1, r))

\* new CfTurnstile(secretKey).validate(token, ip, idempotencyKey), up to the
\* await in req: the request is built and fetch is called.
ValidateCall ==
  /\ turnstile.pc = "idle"
  /\ \E secretKey \in SecretKeys, ip \in Optional("203.0.113.7"),
        idempotencyKey \in Optional("key") :
       turnstile' =
         [turnstile EXCEPT
            !.pc = "fetching",
            !.requests =
              Append(@, Request(FormData(secretKey, "token", ip, idempotencyKey)))]
  /\ UNCHANGED <<innerResult, made, panics, last, routine, pipe, promises, tasks>>

\* await fetch(request): a response arrives, or the fetch fails and validate
\* rejects.
FetchSettles ==
  /\ turnstile.pc = "fetching"
  /\ \/ turnstile' = [turnstile EXCEPT !.pc = "parsing"]
     \/ turnstile' = [turnstile EXCEPT !.pc = "done", !.kind = "reject",
                                       !.value = Str("fetch failed")]
  /\ UNCHANGED <<innerResult, made, panics, last, routine, pipe, promises, tasks>>

\* await response.json(): the body is parsed, or it is no JSON and validate
\* rejects.
JsonSettles ==
  /\ turnstile.pc = "parsing"
  /\ \/ \E body \in Bodies :
          turnstile' = [turnstile EXCEPT !.pc = "received", !.body = body]
     \/ turnstile' = [turnstile EXCEPT !.pc = "done", !.kind = "reject",
                                       !.value = Str("not JSON")]
  /\ UNCHANGED <<innerResult, made, panics, last, routine, pipe, promises, tasks>>

\* validate resumes with the body.
ValidateResume ==
  /\ turnstile.pc = "received"
  /\ LET c == validateResume(Store, turnstile.body) IN
     /\ turnstile' = [turnstile EXCEPT !.pc = "done", !.kind = c.kind,
                                       !.value = c.value]
     /\ innerResult' = c.s.innerResult
     /\ made' = c.s.made
  /\ UNCHANGED <<panics, last, routine, pipe, promises, tasks>>

NextTurnstile ==
  \/ ValidateCall
  \/ FetchSettles
  \/ JsonSettles
  \/ ValidateResume

SpecTurnstile == Init /\ [][NextTurnstile]_vars

\* validate has completed with a Result.
Validated == turnstile.pc = "done" /\ turnstile.kind = "resolve"

\* C15: validate calls the verification endpoint exactly once; once the body
\* has arrived it completes with a Result: Result.ok(body), carrying the
\* body unchanged, when body.success is true, and Result.err of a
\* TurnstileError whose codes are the body's "error-codes" when it is false;
\* the Result is an Ok iff body.success is true.
C15_ValidateMapsBody ==
  /\ turnstile.pc = "idle" => turnstile.requests = <<>>
  /\ turnstile.pc # "idle" =>
       /\ Len(turnstile.requests) = 1
       /\ turnstile.requests[1].url = ENDPOINT
  /\ turnstile.pc = "done" /\ turnstile.body \in Bodies => Validated
  /\ Validated =>
       /\ turnstile.value.tag = "Result"
       /\ Objs = {turnstile.value.v}
       /\ innerResult[turnstile.value.v].success = turnstile.body["success"]
       /\ IF turnstile.body["success"]
            THEN innerResult[turnstile.value.v].value = turnstile.body
            ELSE /\ innerResult[turnstile.value.v].value.name = "TurnstileError"
                 /\ innerResult[turnstile.value.v].value.codes =
                      turnstile.body["error-codes"]

\* validate got a body with success false and two error codes and has
\* completed with an Err of a TurnstileError with those two codes.
C15_Witness ==
  /\ Validated
  /\ Len(turnstile.requests) = 1
  /\ turnstile.body =
       Body(FALSE, <<"missing-input-secret", "timeout-or-duplicate">>)
  /\ innerResult =
       <<[success |-> FALSE,
          value |-> [name |-> "TurnstileError",
                     codes |-> <<"missing-input-secret", "timeout-or-duplicate">>,
                     message |-> "Cloudflare Turnstile returned error codes: 'missing-input-secret', 'timeout-or-duplicate'"]]>>
====
